---------------------------- MODULE Spec2Model ----------------------------
(***************************************************************************)
(* A model of local-secure-rag-prod: the access reconciler                 *)
(* (_cerbos_allowed_ids), the hybrid retriever (HybridRetriever), the      *)
(* semantic cache (SemanticCache) and the query pipeline (answer_query).   *)
(*                                                                         *)
(* Each component has its own specification over its own variables:       *)
(*   SpecAccess    _cerbos_allowed_ids applied to enumerated inputs        *)
(*   SpecRetrieve  HybridRetriever.retrieve applied to enumerated inputs   *)
(*   SpecCache     one SemanticCache object used by one caller             *)
(*   SpecKeys      the same calls with tenants and roles that hold a ":"   *)
(*   SpecCorrupt   the same calls on a Redis holding unreadable embeddings *)
(*   SpecConc      two workers calling SemanticCache.set on one Redis      *)
(*   SpecFuse      one call of _rrf_fuse on any two ranked lists           *)
(*   SpecAnswer    the first answer_query call of a process                *)
(*   SpecShare     sessions of differently configured processes, one Redis *)
(*   SpecRepeat    a session of answer_query calls (cli), no lexical corpus*)
(* The variables of the other components stay at their idle value.        *)
(***************************************************************************)
EXTENDS Integers, Sequences, FiniteSets, TLC

VARIABLES
    \* ---- access reconciler (src/src/app.py, _cerbos_allowed_ids) ----
    cerbos,         \* the client's method surface: which hasattr() tests succeed
    strict,         \* the strict argument
    resource_objs,  \* the ids of the resource list, in order
    probes,         \* what the client answers for each resource, in order
    allowed_ids,    \* the returned set
    errors,         \* the errors list at return
    acc_pc,         \* "idle" before the call, "done" after it
    \* ---- hybrid retriever (src/src/hybrid_retriever.py) ----
    bm25_ids,       \* self._bm25_ids: the doc ids of the lexical corpus (<<>>: self.bm25 is None)
    top_k,          \* retrieve's top_k
    prefilter,      \* retrieve's prefilter
    dense_results,  \* what _dense_search returned: doc ids, best first
    sparse_results, \* what _bm25_search returned: doc ids, best first
    results,        \* what retrieve returned: payload dicts with 'id'
    rt_pc,          \* "idle" before the call, "done" after it
    \* ---- semantic cache (src/src/semantic_cache.py) ----
    store,          \* the Redis store: key -> hash fields, ttl
    hashseed,       \* the string-hash seed of the Python process that owns the cache object
    callers,        \* the (tenant, role) pairs the cache is called with
    last,           \* the latest cache call: its arguments and what it returned
    \* ---- concurrent callers of SemanticCache.set ----
    workers,        \* each worker's position in set and the arguments of its call
    \* ---- query pipeline (src/src/app.py, answer_query and cli) ----
    app,            \* TENANT, APP_ROLE, APP_PROFILE of the process
    reply,          \* the answer_query call that has just returned or raised
    before,         \* the call before: its question, embedding and how it ended
    \* ---- rank fusion (src/src/hybrid_retriever.py, _rrf_fuse) ----
    fuse_dense,     \* the dense list handed to _rrf_fuse (ids, best first)
    fuse_sparse,    \* the sparse list handed to _rrf_fuse (ids, best first)
    fuse_out,       \* the list _rrf_fuse returned
    fuse_pc         \* "idle" | "done"

accVars == <<cerbos, strict, resource_objs, probes, allowed_ids, errors, acc_pc>>
rtVars == <<bm25_ids, top_k, prefilter, dense_results, sparse_results, results, rt_pc>>

cacheVars == <<store, hashseed, callers, last>>

appVars == <<app, reply, before>>

fuseVars == <<fuse_dense, fuse_sparse, fuse_out, fuse_pc>>

vars == <<accVars, rtVars, cacheVars, workers, appVars, fuseVars>>

(***************************************************************************)
(* Bounds of the model.                                                    *)
(***************************************************************************)
\* the longest resource list handed to _cerbos_allowed_ids
MaxCands == 2
\* the largest top_k handed to retrieve
MaxTopK == 3
\* the most keys the Redis store holds at once
MaxEntries == 2
MaxFuseLen == 3

(***************************************************************************)
(* Generic helpers.                                                        *)
(***************************************************************************)
Range(s) == {s[i] : i \in 1..Len(s)}

\* ids handed out to enumerated inputs
IdPool == <<"d1", "d2", "d3", "d4">>

(***************************************************************************)
(* Access reconciler: src/src/app.py, _cerbos_allowed_ids.                 *)
(***************************************************************************)
\* What cerbos.is_allowed(...) does for one resource.
IaOutcomes == {"true", "false", "raise"}

\* What cerbos.check_resource(...) does for one resource: it raises, or it
\* returns a decision object.  m is the decision's is_allowed method
\* ("absent": no callable attribute; "true"/"false": its result; "raise":
\* it raises), a is decision.actions ("absent": not a dict, or the action
\* is not in it; "true"/"false": actions[action]).  After m = "true" or
\* m = "raise" the code never reads a, so those carry a = "absent".
CrOutcomes ==
    {[raises |-> TRUE, m |-> "absent", a |-> "absent"],
     [raises |-> FALSE, m |-> "true", a |-> "absent"],
     [raises |-> FALSE, m |-> "raise", a |-> "absent"]}
    \cup [raises : {FALSE}, m : {"absent", "false"}, a : {"absent", "true", "false"}]

Probes == [ia : IaOutcomes, cr : CrOutcomes]

\* The client's method surface: hasattr(cerbos, "is_allowed"),
\* hasattr(cerbos, "check_resource").
Clients == [is_allowed : BOOLEAN, check_resource : BOOLEAN]

\* Lines 101-109: the simple boolean strategy.  "allow": rid is added and
\* the loop continues with the next resource; "error": the exception is
\* appended to errors; "next": nothing happened.
TryIsAllowed(c, p) ==
    IF ~c.is_allowed THEN "next"
    ELSE IF p.ia = "raise" THEN "error"
    ELSE IF p.ia = "true" THEN "allow"
    ELSE "next"

\* Lines 111-126: the decision-object strategy.
TryCheckResource(c, p) ==
    IF ~c.check_resource THEN "next"
    ELSE IF p.cr.raises THEN "error"
    ELSE IF p.cr.m = "raise" THEN "error"
    ELSE IF p.cr.m = "true" THEN "allow"
    ELSE IF p.cr.a = "true" THEN "allow"
    ELSE "next"

\* ProbeResource giving the candidate up when its first strategy raises.
ProbeResourceAbort(c, p) ==
    LET s1 == TryIsAllowed(c, p)
    IN  IF s1 = "allow" THEN [allow |-> TRUE, errs |-> <<>>]
        ELSE IF s1 = "error" THEN [allow |-> FALSE, errs |-> <<"is_allowed">>]
        ELSE LET s2 == TryCheckResource(c, p)
             IN  [allow |-> (s2 = "allow"),
                  errs |-> IF s2 = "error" THEN <<"check_resource">> ELSE <<>>]

\* One iteration of the loop of lines 98-126 for one resource: whether rid
\* is added to allowed, and what is appended to errors.
ProbeResource(c, p) ==
    LET s1 == TryIsAllowed(c, p)
        e1 == IF s1 = "error" THEN <<"is_allowed">> ELSE <<>>
    IN  IF s1 = "allow"
        THEN [allow |-> TRUE, errs |-> <<>>]
        ELSE LET s2 == TryCheckResource(c, p)
                 e2 == IF s2 = "error" THEN <<"check_resource">> ELSE <<>>
             IN  [allow |-> (s2 = "allow"), errs |-> e1 \o e2]

\* The set allowed after the loop of lines 98-126.
RECURSIVE LoopAllowed(_, _, _)
LoopAllowed(c, res, prs) ==
    IF res = <<>> THEN {}
    ELSE LET n == Len(res)
             rest == LoopAllowed(c, SubSeq(res, 1, n - 1), SubSeq(prs, 1, n - 1))
         IN  IF ProbeResource(c, prs[n]).allow THEN rest \cup {res[n]} ELSE rest

\* The errors list after the loop.
RECURSIVE LoopErrors(_, _)
LoopErrors(c, prs) ==
    IF prs = <<>> THEN <<>>
    ELSE LET n == Len(prs)
         IN  LoopErrors(c, SubSeq(prs, 1, n - 1)) \o ProbeResource(c, prs[n]).errs

\* Lines 128-137 with reversed modes: a plausible slip of the fallback.
FallbackSwapped(allowed, res, st) ==
    IF allowed = {}
    THEN IF st THEN Range(res) ELSE {}
    ELSE allowed

\* Lines 128-137: the fallback applied to the loop's result.
Fallback(allowed, res, st) ==
    IF allowed = {}
    THEN IF ~st THEN Range(res) ELSE {}
    ELSE allowed

\* _cerbos_allowed_ids(cerbos, principal, resource_objs, action, strict).
CerbosAllowedIds(c, res, prs, st) == Fallback(LoopAllowed(c, res, prs), res, st)

AccIdle ==
    /\ cerbos = [is_allowed |-> FALSE, check_resource |-> FALSE]
    /\ strict = FALSE
    /\ resource_objs = <<>>
    /\ probes = <<>>
    /\ allowed_ids = {}
    /\ errors = <<>>
    /\ acc_pc = "idle"

\* The deployment: the client's surface and CERBOS_STRICT.
AccInit ==
    /\ cerbos \in Clients
    /\ strict \in BOOLEAN
    /\ resource_objs = <<>>
    /\ probes = <<>>
    /\ allowed_ids = {}
    /\ errors = <<>>
    /\ acc_pc = "idle"

\* One call of _cerbos_allowed_ids on a resource list of n resources.
ResolveAllowed ==
    /\ acc_pc = "idle"
    /\ \E n \in 0..MaxCands :
       \E prs \in [1..n -> Probes] :
          LET res == SubSeq(IdPool, 1, n) IN
          /\ resource_objs' = res
          /\ probes' = prs
          /\ allowed_ids' = CerbosAllowedIds(cerbos, res, prs, strict)
          /\ errors' = LoopErrors(cerbos, prs)
    /\ acc_pc' = "done"
    /\ UNCHANGED <<cerbos, strict>>
    /\ UNCHANGED <<rtVars, cacheVars, workers, appVars, fuseVars>>

(***************************************************************************)
(* Strings.  Tenant and role names are sequences of characters over a      *)
(* small alphabet; the one-letter words stand for the longer names of the  *)
(* deployment ("e" for 'employee', "m" for 'manager', "a" for 'acme').     *)
(***************************************************************************)
\* the literal 'employee' of build_prefilter
Employee == <<"e">>
Manager == <<"m">>

\* a key the payload dict does not have
Absent == <<"?">>

(***************************************************************************)
(* The vector index (Qdrant collection): its points and their payloads,    *)
(* as written by index_documents.upsert_chunks and reindex.main.           *)
(***************************************************************************)
PointIds == {"d1", "d2", "d3"}

Points ==
    [id \in PointIds |->
        CASE id = "d1" -> [source |-> "a.txt", text |-> "t1",
                           tenant |-> <<"a">>, sensitivity |-> "public"]
          [] id = "d2" -> [source |-> "a.txt", text |-> "t2",
                           tenant |-> <<"a">>, sensitivity |-> "confidential"]
          [] id = "d3" -> [source |-> "b.txt", text |-> "t3",
                           tenant |-> <<"b">>, sensitivity |-> "public"]]

\* The lexical corpus the retriever is built from (app.py lines 58-65):
\* none, the one build_bm25.main writes (point ids), or the one
\* reindex.main writes (file names).
Bm25Corpora == {<<>>, <<"d1", "d2", "d3">>, <<"a.txt", "b.txt">>}

(***************************************************************************)
(* Prefilter: src/src/prefilter.py.                                        *)
(***************************************************************************)
\* retrieve's prefilter=None
NoFilter == [tenant |-> Absent, sensitivity |-> "any"]

\* build_prefilter with the sensitivity condition on every role.
BuildPrefilterAllRoles(tenant, role) ==
    [tenant |-> tenant, sensitivity |-> "public"]

\* build_prefilter(tenant, role): the must-conditions of the Filter.
BuildPrefilter(tenant, role) ==
    [tenant |-> tenant,
     sensitivity |-> IF role = Employee THEN "public" ELSE "any"]

\* Whether a payload meets every must-condition of a filter (Qdrant's
\* evaluation of Filter(must=[FieldCondition(match=MatchValue)])).
Matches(payload, f) ==
    \/ f = NoFilter
    \/ /\ payload.tenant = f.tenant
       /\ f.sensitivity = "any" \/ payload.sensitivity = f.sensitivity

(***************************************************************************)
(* Hybrid retriever: src/src/hybrid_retriever.py.                          *)
(***************************************************************************)
RRF_K == 60
\* the fixed over-fetch of _dense_search and _bm25_search
OVERFETCH == 10

Max(a, b) == IF a >= b THEN a ELSE b
Min(a, b) == IF a <= b THEN a ELSE b

\* s[:n] for n >= 0
Take(s, n) == SubSeq(s, 1, Min(n, Len(s)))

\* The sequences without repetition over S, of length at most n.
InjSeqs(S, n) ==
    UNION {{s \in [1..k -> S] : \A i, j \in 1..k : i # j => s[i] # s[j]} :
           k \in 0..Min(n, Cardinality(S))}

\* What qdrant.search may return (lines 50-56): points that match the
\* filter, best first, at most limit = max(top_k, 10) of them.
DenseSearches(k, f) ==
    InjSeqs({id \in PointIds : Matches(Points[id], f)}, Max(k, OVERFETCH))

\* What _bm25_search may return (lines 63-73): [] without an index;
\* otherwise the whole corpus ordered by score (any order, as the scores
\* are the query's), cut to max(top_k, 10).  The prefilter is not an
\* argument.
Bm25Searches(ids, k) ==
    IF ids = <<>> THEN {<<>>}
    ELSE {Take([i \in 1..Len(ids) |-> ids[perm[i]]], Max(k, OVERFETCH)) :
          perm \in {q \in [1..Len(ids) -> 1..Len(ids)] :
                    \A i, j \in 1..Len(ids) : i # j => q[i] # q[j]}}

\* 1-based rank of id in a result list, 0 when absent.
RankIn(s, id) ==
    IF id \in Range(s) THEN CHOOSE i \in 1..Len(s) : s[i] = id ELSE 0

\* RrfScore that keeps the better of the two terms instead of their sum.
RrfScoreBest(dense, sparse, id, k) ==
    LET rd == RankIn(dense, id)
        rs == RankIn(sparse, id)
    IN  IF rd > 0 /\ rs > 0 THEN <<1, k + Min(rd, rs)>>
        ELSE IF rd > 0 THEN <<1, k + rd>>
        ELSE IF rs > 0 THEN <<1, k + rs>>
        ELSE <<0, 1>>

\* The RRF score of line 87/91 as a fraction <<numerator, denominator>>:
\* the sum of 1/(k + rank) over the lists that hold the id.
RrfScore(dense, sparse, id, k) ==
    LET rd == RankIn(dense, id)
        rs == RankIn(sparse, id)
    IN  IF rd > 0 /\ rs > 0 THEN <<(k + rd) + (k + rs), (k + rd) * (k + rs)>>
        ELSE IF rd > 0 THEN <<1, k + rd>>
        ELSE IF rs > 0 THEN <<1, k + rs>>
        ELSE <<0, 1>>

FracGT(x, y) == x[1] * y[2] > y[1] * x[2]
FracEQ(x, y) == x[1] * y[2] = y[1] * x[2]

\* RanksKeys with the sparse ids inserted first.
RanksKeysSparseFirst(dense, sparse) ==
    sparse \o SelectSeq(dense, LAMBDA id : id \notin Range(sparse))

\* The keys of the ranks dict in insertion order: the dense ids, then the
\* sparse ids not seen before.
RanksKeys(dense, sparse) ==
    dense \o SelectSeq(sparse, LAMBDA id : id \notin Range(dense))

\* _rrf_fuse (lines 75-94): the keys sorted by descending score; sorted()
\* is stable, so equal scores keep the insertion order.
RrfFuse(dense, sparse, k) ==
    LET keys == RanksKeys(dense, sparse)
        sc(i) == RrfScore(dense, sparse, keys[i], k)
        pos(i) == 1 + Cardinality({j \in 1..Len(keys) :
                        \/ FracGT(sc(j), sc(i))
                        \/ FracEQ(sc(j), sc(i)) /\ j < i})
    IN  [p \in 1..Len(keys) |-> keys[CHOOSE i \in 1..Len(keys) : pos(i) = p]]

\* Lines 109-115: the fused order.
FusedIds(dense, sparse) ==
    IF sparse = <<>> THEN dense
    ELSE IF dense = <<>> THEN sparse
    ELSE RrfFuse(dense, sparse, RRF_K)

\* Lines 131-139: the payload of a dense hit, or the stub of an id the
\* dense search did not return, with 'id' attached.
Item(dense, did) ==
    IF did \in Range(dense)
    THEN [id |-> did, source |-> Points[did].source, text |-> Points[did].text,
          tenant |-> Points[did].tenant, sensitivity |-> Points[did].sensitivity]
    ELSE [id |-> did, source |-> did, text |-> "",
          tenant |-> Absent, sensitivity |-> "absent"]

\* Line 141 without the cut.
TopKUncut(out, k) == out

\* Line 141: out[:top_k].
TopK(out, k) == Take(out, k)

\* retrieve (lines 96-141) given what the two searches returned.
Retrieve(dense, sparse, k) ==
    LET fused == FusedIds(dense, sparse)
    IN  TopK([i \in 1..Len(fused) |-> Item(dense, fused[i])], k)

\* the doc ids of the lists _rrf_fuse is called with, and the lists: ranked,
\* without repetition (a search returns a point or a file once)
FuseIds == {"d1", "d2", "d3"}
FuseLists == InjSeqs(FuseIds, MaxFuseLen)

FuseIdle ==
    /\ fuse_dense = <<>>
    /\ fuse_sparse = <<>>
    /\ fuse_out = <<>>
    /\ fuse_pc = "idle"

\* any two ranked lists, before the call
FuseInit ==
    /\ fuse_dense \in FuseLists
    /\ fuse_sparse \in FuseLists
    /\ fuse_out = <<>>
    /\ fuse_pc = "idle"

\* _rrf_fuse(dense, sparse), lines 75-94, with k = RRF_K.
RrfFuseCall ==
    /\ fuse_pc = "idle"
    /\ fuse_out' = RrfFuse(fuse_dense, fuse_sparse, RRF_K)
    /\ fuse_pc' = "done"
    /\ UNCHANGED <<fuse_dense, fuse_sparse>>
    /\ UNCHANGED <<accVars, rtVars, cacheVars, workers, appVars>>

RtIdle ==
    /\ bm25_ids = <<>>
    /\ top_k = 0
    /\ prefilter = NoFilter
    /\ dense_results = <<>>
    /\ sparse_results = <<>>
    /\ results = <<>>
    /\ rt_pc = "idle"

\* The retriever as constructed (lines 15-41).
RtInit ==
    /\ bm25_ids \in Bm25Corpora
    /\ top_k = 0
    /\ prefilter = NoFilter
    /\ dense_results = <<>>
    /\ sparse_results = <<>>
    /\ results = <<>>
    /\ rt_pc = "idle"

\* the tenants and roles a prefilter is built for
FilterTenants == {<<"a">>, <<"b">>}
FilterRoles == {Employee, Manager}

\* One call of retrieve(query, top_k, prefilter).
RetrieveCall ==
    /\ rt_pc = "idle"
    /\ \E k \in 0..MaxTopK :
       \E f \in {NoFilter} \cup {BuildPrefilter(t, r) : t \in FilterTenants, r \in FilterRoles} :
       \E dense \in DenseSearches(k, f) :
       \E sparse \in Bm25Searches(bm25_ids, k) :
          /\ top_k' = k
          /\ prefilter' = f
          /\ dense_results' = dense
          /\ sparse_results' = sparse
          /\ results' = Retrieve(dense, sparse, k)
    /\ rt_pc' = "done"
    /\ UNCHANGED bm25_ids
    /\ UNCHANGED <<accVars, cacheVars, workers, appVars, fuseVars>>

(***************************************************************************)
(* Semantic cache: src/src/semantic_cache.py.                              *)
(***************************************************************************)
\* str.lower() on one character
LowerChar(c) == IF c = "A" THEN "a" ELSE IF c = "B" THEN "b" ELSE c

\* str.lower()
Lower(s) == [i \in 1..Len(s) |-> LowerChar(s[i])]

\* str.strip(): leading and trailing whitespace removed
RECURSIVE Strip(_)
Strip(s) ==
    IF s = <<>> THEN s
    ELSE IF Head(s) = " " THEN Strip(Tail(s))
    ELSE IF s[Len(s)] = " " THEN Strip(SubSeq(s, 1, Len(s) - 1))
    ELSE s

DigitChar == <<"0", "1", "2", "3", "4", "5", "6", "7", "8", "9">>

\* the decimal digits of a natural number, as an f-string writes it
RECURSIVE Digits(_)
Digits(n) ==
    IF n < 10 THEN <<DigitChar[n + 1]>>
    ELSE Digits(n \div 10) \o <<DigitChar[(n % 10) + 1]>>

Queries == {"q1", "q2"}

\* Python's hash(str) is seeded per process.  A hash value is written
\* sign * (hi * 10^12 + lo); under seed 1 the two queries differ by a
\* multiple of 10^12, under seed 2 they do not.
Seeds == {1, 2}

PyHash(seed, query) ==
    IF seed = 1
    THEN IF query = "q1" THEN [neg |-> FALSE, hi |-> 0, lo |-> 7]
                         ELSE [neg |-> TRUE, hi |-> 1, lo |-> 7]
    ELSE IF query = "q1" THEN [neg |-> TRUE, hi |-> 0, lo |-> 12]
                         ELSE [neg |-> FALSE, hi |-> 1, lo |-> 3]

\* Line 26: abs(hash(query)) % (10 ** 12).
QHash(seed, query) == PyHash(seed, query).lo

\* _key without tenant and role: a plausible slip of line 27.
KeyQueryOnly(seed, query, tenant, role) ==
    <<"cache:query:">> \o Digits(QHash(seed, query))

\* _key (lines 23-27): f"cache:query:{tenant}:{role}:{qhash}".
Key(seed, query, tenant, role) ==
    <<"cache:query:">> \o Strip(Lower(tenant)) \o <<":">>
        \o Strip(Lower(role)) \o <<":">> \o Digits(QHash(seed, query))

\* Embeddings: float32 vectors (app.py line 154).
Vectors == {<<0, 0>>, <<1, 0>>, <<4, 1>>, <<1, 1>>}

\* ndarray.tobytes() of a float32 array: four bytes per component; byte j
\* of the encoding of x is written <<x, j>>.
ToBytes(v) == [n \in 1..(4 * Len(v)) |-> <<v[((n - 1) \div 4) + 1], ((n - 1) % 4) + 1>>]

\* np.frombuffer reading the components last to first: a plausible slip
\* of the decoding.
FromBufferReversed(b) ==
    IF Len(b) % 4 # 0 THEN [raises |-> TRUE, v |-> <<>>]
    ELSE [raises |-> FALSE,
          v |-> [i \in 1..(Len(b) \div 4) |-> b[Len(b) - 4 * i + 1][1]]]

\* np.frombuffer(b, dtype=np.float32): raises unless the length is a
\* multiple of the item size.
FromBuffer(b) ==
    IF Len(b) % 4 # 0 THEN [raises |-> TRUE, v |-> <<>>]
    ELSE [raises |-> FALSE, v |-> [i \in 1..(Len(b) \div 4) |-> b[4 * (i - 1) + 1][1]]]

RECURSIVE Dot(_, _)
Dot(a, b) == IF a = <<>> THEN 0 ELSE Head(a) * Head(b) + Dot(Tail(a), Tail(b))

\* the threshold of the cache, 0.95, as a fraction
THRESHOLD_NUM == 95
THRESHOLD_DEN == 100
\* the ttl of the cache when set is given none
DEFAULT_TTL == 3600

\* _cosine_similarity (lines 18-21).  The similarity dot/sqrt(nn) is kept
\* as the pair (dot, nn); zero is TRUE when line 20 returned 0.0; raises
\* when np.dot refuses the shapes.
CosineSimilarity(a, b) ==
    IF Dot(a, a) = 0 \/ Dot(b, b) = 0
    THEN [raises |-> FALSE, zero |-> TRUE, dot |-> 0, nn |-> 1]
    ELSE IF Len(a) # Len(b)
    THEN [raises |-> TRUE, zero |-> FALSE, dot |-> 0, nn |-> 1]
    ELSE [raises |-> FALSE, zero |-> FALSE, dot |-> Dot(a, b), nn |-> Dot(a, a) * Dot(b, b)]

\* Line 54 with the comparison dropped: every key match is a hit.
BelowThresholdNever(sim) == FALSE

\* Line 54: sim < self.threshold.
BelowThreshold(sim) ==
    \/ sim.zero
    \/ sim.dot <= 0
    \/ sim.dot * sim.dot * THRESHOLD_DEN * THRESHOLD_DEN
         < THRESHOLD_NUM * THRESHOLD_NUM * sim.nn

\* str(x) of a list: its repr, a string and no longer a list.
PyStr(x) == [str_of |-> x]

\* get's return value None
Miss == [hit |-> FALSE, raises |-> FALSE, answer |-> "", sources |-> PyStr(<<>>),
         similarity |-> [dot |-> 0, nn |-> 1]]

\* get (lines 32-63) on store st.
Get(st, seed, query, query_embedding, tenant, role) ==
    LET cache_key == Key(seed, query, tenant, role)
    IN  IF cache_key \notin DOMAIN st THEN Miss
        ELSE LET cached_data == st[cache_key].fields
                 dec == IF "embedding" \in DOMAIN cached_data
                        THEN FromBuffer(cached_data.embedding)
                        ELSE [raises |-> TRUE, v |-> <<>>]
             IN  IF dec.raises THEN Miss
                 ELSE LET sim == CosineSimilarity(query_embedding, dec.v)
                      IN  IF sim.raises THEN [Miss EXCEPT !.raises = TRUE]
                          ELSE IF BelowThreshold(sim) THEN Miss
                          ELSE [hit |-> TRUE, raises |-> FALSE,
                                answer |-> cached_data.answer,
                                sources |-> cached_data.sources,
                                similarity |-> [dot |-> sim.dot, nn |-> sim.nn]]

\* Lines 82-89: the mapping set writes (the timestamp, which nothing
\* reads, is left out).
Mapping(query, query_embedding, data) ==
    [query |-> query,
     embedding |-> ToBytes(query_embedding),
     answer |-> data.answer,
     results |-> "",
     sources |-> PyStr(data.sources)]

\* Line 81: ttl or self.ttl (None and 0 are both written 0).
EffectiveTtl(ttl) == IF ttl = 0 THEN DEFAULT_TTL ELSE ttl

\* HSET that leaves an existing key as it is.
HSetNX(st, key, mapping, who) ==
    IF key \in DOMAIN st THEN st
    ELSE [k \in DOMAIN st \cup {key} |->
            IF k = key THEN [fields |-> mapping, ttl |-> -1, by |-> who] ELSE st[k]]

\* Redis HSET key mapping: the fields are replaced, the key's ttl is kept;
\* a new key has no expiry (ttl -1).  who is not part of the store: it
\* notes the call that wrote the fields.
HSet(st, key, mapping, who) ==
    [k \in DOMAIN st \cup {key} |->
        IF k = key
        THEN [fields |-> mapping,
              ttl |-> IF key \in DOMAIN st THEN st[key].ttl ELSE -1,
              by |-> who]
        ELSE st[k]]

\* Redis EXPIRE key ttl: nothing on a missing key.
Expire(st, key, ttl) ==
    IF key \in DOMAIN st THEN [st EXCEPT ![key].ttl = ttl] ELSE st

\* Redis DEL keys
Del(st, keys) == [k \in DOMAIN st \ keys |-> st[k]]

\* Redis glob matching of a pattern with "*" against a key.
RECURSIVE GlobMatch(_, _)
GlobMatch(pat, str) ==
    IF pat = <<>> THEN str = <<>>
    ELSE IF Head(pat) = "*"
    THEN \/ GlobMatch(Tail(pat), str)
         \/ str # <<>> /\ GlobMatch(pat, Tail(str))
    ELSE str # <<>> /\ Head(pat) = Head(str) /\ GlobMatch(Tail(pat), Tail(str))

\* Lines 101-108: clear's pattern; <<>> stands for None (and for '', which
\* is as falsy).
ClearPattern(tenant, role) ==
    IF tenant # <<>> /\ role # <<>>
    THEN <<"cache:query:">> \o tenant \o <<":">> \o role \o <<":", "*">>
    ELSE IF tenant # <<>> THEN <<"cache:query:">> \o tenant \o <<":", "*">>
    ELSE IF role # <<>> THEN <<"cache:query:", "*", ":">> \o role \o <<":", "*">>
    ELSE <<"cache:query:", "*">>

\* the tenants and roles the cache is called with
Tenants == {<<"a">>, <<"A">>, <<"b">>}
Roles == {Employee}
\* the data dicts handed to set
Datas == {[answer |-> "ans", sources |-> <<"a.txt">>]}
\* the ttl arguments handed to set (0: None)
TtlArgs == {0}

\* What the call before a call was: its operation and arguments.
Args(op, query, emb, tenant, role) ==
    [op |-> op, query |-> query, embedding |-> emb, tenant |-> tenant, role |-> role]

NoArgs == Args("none", "q1", <<>>, <<>>, <<>>)

\* The record of a cache call: its arguments, its return value (ret for
\* get, count for clear) and, for a get, the call right before it.
Call(op, query, emb, tenant, role, ret, count, prev) ==
    [op |-> op, query |-> query, embedding |-> emb, tenant |-> tenant,
     role |-> role, ret |-> ret, count |-> count, prev |-> prev]

NoCall == Call("none", "q1", <<>>, <<>>, <<>>, Miss, 0, NoArgs)

CacheIdle ==
    /\ store = <<>>
    /\ hashseed = 1
    /\ callers = {}
    /\ last = NoCall

\* The cache as constructed (lines 13-16) over an empty Redis.
CacheInit ==
    /\ store = <<>>
    /\ hashseed \in Seeds
    /\ callers = [tenant : Tenants, role : Roles]
    /\ last = NoCall

\* tenants and roles that hold the key's separator
KeyCallers ==
    {[tenant |-> <<"a", ":", "b">>, role |-> Employee],
     [tenant |-> <<"a">>, role |-> <<"b", ":", "e">>],
     [tenant |-> <<"a">>, role |-> Employee]}

\* The cache as constructed, called with such tenants and roles.
KeysInit ==
    /\ store = <<>>
    /\ hashseed \in Seeds
    /\ callers = KeyCallers
    /\ last = NoCall

\* Hashes as another writer may have left them at a key of the cache: no
\* embedding field, bytes that are no float32 array, and the embedding of
\* a model of another dimension.
ForeignMappings ==
    {[query |-> "q1", answer |-> "old", results |-> "", sources |-> PyStr(<<>>)],
     [query |-> "q1", answer |-> "old", results |-> "", sources |-> PyStr(<<>>),
      embedding |-> <<<<1, 1>>, <<1, 2>>, <<1, 3>>>>],
     [query |-> "q1", answer |-> "old", results |-> "", sources |-> PyStr(<<>>),
      embedding |-> ToBytes(<<1>>)]}

\* The cache as constructed over a Redis that other writers share.
CorruptInit ==
    /\ store = <<>>
    /\ hashseed \in Seeds
    /\ callers = {[tenant |-> <<"a">>, role |-> Employee]}
    /\ last = NoCall

\* a get or a clear has returned and its caller has not gone on yet
Returning == last.op \in {"get", "clear"}

\* Another writer leaves such a hash at a key of the cache (an HSET on the
\* shared Redis).
ForeignWrite ==
    /\ ~Returning
    /\ \E q \in Queries, c \in callers, m \in ForeignMappings :
        LET cache_key == Key(hashseed, q, c.tenant, c.role)
            who == [query |-> q, embedding |-> <<>>, tenant |-> c.tenant, role |-> c.role]
        IN  /\ cache_key \in DOMAIN store \/ Cardinality(DOMAIN store) < MaxEntries
            /\ store' = HSet(store, cache_key, m, who)
    /\ last' = NoCall
    /\ UNCHANGED <<hashseed, callers>>
    /\ UNCHANGED <<accVars, rtVars, workers, appVars, fuseVars>>

\* cache.get(query, query_embedding, tenant, role)
CacheGet ==
    /\ ~Returning
    /\ \E q \in Queries, e \in Vectors, c \in callers :
        last' = Call("get", q, e, c.tenant, c.role,
                     Get(store, hashseed, q, e, c.tenant, c.role), 0,
                     Args(last.op, last.query, last.embedding, last.tenant, last.role))
    /\ UNCHANGED <<store, hashseed, callers>>
    /\ UNCHANGED <<accVars, rtVars, workers, appVars, fuseVars>>

\* cache.set(query, query_embedding, data, tenant, role, ttl): lines 68-91,
\* HSET then EXPIRE.
CacheSet ==
    /\ ~Returning
    /\ \E q \in Queries, e \in Vectors, c \in callers, d \in Datas, ttl \in TtlArgs :
        LET cache_key == Key(hashseed, q, c.tenant, c.role)
            who == [query |-> q, embedding |-> e, tenant |-> c.tenant, role |-> c.role]
        IN  /\ cache_key \in DOMAIN store \/ Cardinality(DOMAIN store) < MaxEntries
            /\ store' = Expire(HSet(store, cache_key, Mapping(q, e, d), who),
                               cache_key, EffectiveTtl(ttl))
            /\ last' = Call("set", q, e, c.tenant, c.role, Miss, 0, NoArgs)
    /\ UNCHANGED <<hashseed, callers>>
    /\ UNCHANGED <<accVars, rtVars, workers, appVars, fuseVars>>

\* cache.clear(tenant, role): lines 96-114.  The return value is the count
\* of deleted keys.
CacheClear ==
    /\ ~Returning
    /\ \E t \in {c.tenant : c \in callers} \cup {<<>>},
          r \in {c.role : c \in callers} \cup {<<>>} :
        LET keys == {k \in DOMAIN store : GlobMatch(ClearPattern(t, r), k)}
        IN  /\ store' = Del(store, keys)
            /\ last' = Call("clear", "q1", <<>>, t, r, Miss, Cardinality(keys), NoArgs)
    /\ UNCHANGED <<hashseed, callers>>
    /\ UNCHANGED <<accVars, rtVars, workers, appVars, fuseVars>>

\* The caller of a get or a clear takes the result and goes on.
CallReturns ==
    /\ Returning
    /\ last' = NoCall
    /\ UNCHANGED <<store, hashseed, callers>>
    /\ UNCHANGED <<accVars, rtVars, workers, appVars, fuseVars>>

\* Redis drops a key whose ttl has run out.
KeyExpires ==
    /\ ~Returning
    /\ \E k \in DOMAIN store :
        /\ store[k].ttl > 0
        /\ store' = Del(store, {k})
    /\ last' = NoCall
    /\ UNCHANGED <<hashseed, callers>>
    /\ UNCHANGED <<accVars, rtVars, workers, appVars, fuseVars>>

(***************************************************************************)
(* Concurrent set calls: src/src/semantic_cache.py lines 68-91, two        *)
(* workers on one Redis, no client-side lock.  Redis runs each command     *)
(* atomically; a set is two commands.                                      *)
(***************************************************************************)
Workers == {"w1", "w2"}

\* the ttl arguments the workers hand to set (0: None)
WorkerTtls == {0, 60, 120}

IdleWorker ==
    [pc |-> "idle", query |-> "q1", embedding |-> <<>>, tenant |-> <<>>,
     role |-> <<>>, answer |-> "", ttl |-> 0]

WorkersIdle == workers = [w \in Workers |-> IdleWorker]

\* the key worker w writes (line 80)
WorkerKey(w) ==
    Key(hashseed, workers[w].query, workers[w].tenant, workers[w].role)

\* Lines 80-89: worker w enters set and builds key, ttl and mapping; the
\* answer it stores names the worker.
SetEnter(w) ==
    /\ workers[w].pc = "idle"
    /\ \E q \in Queries, e \in Vectors, c \in callers, ttl \in WorkerTtls :
        workers' = [workers EXCEPT ![w] =
            [pc |-> "hset", query |-> q, embedding |-> e, tenant |-> c.tenant,
             role |-> c.role, answer |-> w, ttl |-> ttl]]
    /\ UNCHANGED cacheVars
    /\ UNCHANGED <<accVars, rtVars, appVars, fuseVars>>

\* Line 90: self.redis.hset(cache_key, mapping=mapping).
SetHSet(w) ==
    /\ workers[w].pc = "hset"
    /\ store' = HSet(store, WorkerKey(w),
                     Mapping(workers[w].query, workers[w].embedding,
                             [answer |-> workers[w].answer, sources |-> <<>>]),
                     w)
    /\ workers' = [workers EXCEPT ![w].pc = "expire"]
    /\ UNCHANGED <<hashseed, callers, last>>
    /\ UNCHANGED <<accVars, rtVars, appVars, fuseVars>>

\* Line 91: self.redis.expire(cache_key, ttl).
SetExpire(w) ==
    /\ workers[w].pc = "expire"
    /\ store' = Expire(store, WorkerKey(w), EffectiveTtl(workers[w].ttl))
    /\ workers' = [workers EXCEPT ![w].pc = "done"]
    /\ UNCHANGED <<hashseed, callers, last>>
    /\ UNCHANGED <<accVars, rtVars, appVars, fuseVars>>

(***************************************************************************)
(* Query pipeline: src/src/app.py, answer_query and cli.                   *)
(***************************************************************************)
\* retrieve's top_k at line 165
APP_TOP_K == 5

\* enforce_output_guard's fixed refusal (guard_llamaguard.py line 9)
Refusal == "I can't provide that content."

\* the ttl the cache is constructed with (line 54)
APP_TTL == 360

\* the text the chain generates (line 203), after redact_pii (line 204)
Generated == "ans"

\* enforce_output_guard without the substitution.
EnforceOutputGuardPass(text, unsafe) == text

\* enforce_output_guard(text) (guard_llamaguard.py lines 8-9), unsafe being
\* the classifier's verdict on text.
EnforceOutputGuard(text, unsafe) == IF unsafe THEN Refusal ELSE text

\* the lexical corpus of the deployment (lines 57-65): none, or the one
\* built from tenant a's points
AppBm25Corpora == {<<>>, <<"d1", "d2">>}

\* the embeddings the embedding service returns (line 154)
AppVectors == {<<0, 0>>, <<1, 0>>, <<1, 1>>}

\* what the Cerbos client answers for one resource: allowed by the simple
\* check, denied by both checks, both checks raising
AppProbes ==
    {[ia |-> "true", cr |-> [raises |-> FALSE, m |-> "true", a |-> "absent"]],
     [ia |-> "false", cr |-> [raises |-> FALSE, m |-> "false", a |-> "false"]],
     [ia |-> "raise", cr |-> [raises |-> TRUE, m |-> "absent", a |-> "absent"]]}

\* a list, as answer_query returns the sources of a miss
PyList(x) == [list_of |-> x]

NoReply ==
    [outcome |-> "none", q |-> "q1", qvec |-> <<>>, calls |-> {},
     results |-> <<>>, allowed_ids |-> {}, context |-> <<>>,
     answer |-> "", sources |-> PyList(<<>>), repeat |-> FALSE,
     unsafe_out |-> FALSE]

NoBefore == [q |-> "q1", qvec |-> <<>>, returned |-> FALSE, quiet |-> FALSE]

AppIdle ==
    /\ app = [tenant |-> <<>>, role |-> <<>>, profile |-> "base"]
    /\ reply = NoReply
    /\ before = NoBefore

\* Line 188 without the filter.
AllowedDocsUnfiltered(res, ids) == res

\* Lines 188-194: the retrieved candidates whose id is allowed, in
\* retrieval order; the context holds each one's source and text.
AllowedDocs(res, ids) == SelectSeq(res, LAMBDA r : r.id \in ids)

\* The ids of a result list (line 181).
ResourceIds(res) == [i \in 1..Len(res) |-> res[i].id]

\* The sources of a list of docs (lines 212, 218).
SourcesOf(docs) == [i \in 1..Len(docs) |-> docs[i].source]

\* This call repeats the one before: the call before returned an answer,
\* the question and the embedding are the same, and no entry has expired
\* since.
Repeats(q, qvec) ==
    /\ before.returned
    /\ before.quiet
    /\ before.q = q
    /\ before.qvec = qvec

\* The input guard placed after the cache lookup.
AnswerBlockedAfterLookup(q) ==
    /\ app.profile = "guardrails"
    /\ reply' = [NoReply EXCEPT !.outcome = "blocked", !.q = q,
                                !.calls = {"guard_in", "embed", "cache_get"}]
    /\ UNCHANGED store

\* Lines 149-150: the input guard raises; nothing else has been called.
AnswerBlocked(q) ==
    /\ app.profile = "guardrails"
    /\ reply' = [NoReply EXCEPT !.outcome = "blocked", !.q = q,
                                !.calls = {"guard_in"}]
    /\ UNCHANGED store

\* the collaborators called up to and including cache.get (lines 149-155)
CallsToGet ==
    (IF app.profile = "guardrails" THEN {"guard_in"} ELSE {}) \cup {"embed", "cache_get"}

\* A hit that writes the entry again under the incoming question.
AnswerHitRewrites(q, qvec) ==
    LET cached == Get(store, hashseed, q, qvec, app.tenant, app.role)
        cache_key == Key(hashseed, q, app.tenant, app.role)
    IN  /\ cached.hit
        /\ reply' = [NoReply EXCEPT !.outcome = "hit", !.q = q, !.qvec = qvec,
                                    !.calls = CallsToGet \cup {"cache_set"},
                                    !.answer = cached.answer,
                                    !.sources = cached.sources,
                                    !.repeat = Repeats(q, qvec)]
        /\ store' = [store EXCEPT ![cache_key].fields.query = q,
                                  ![cache_key].by.query = q]

\* Lines 154-158: the cache answers.
AnswerHit(q, qvec) ==
    LET cached == Get(store, hashseed, q, qvec, app.tenant, app.role)
    IN  /\ cached.hit
        /\ reply' = [NoReply EXCEPT !.outcome = "hit", !.q = q, !.qvec = qvec,
                                    !.calls = CallsToGet,
                                    !.answer = cached.answer,
                                    !.sources = cached.sources,
                                    !.repeat = Repeats(q, qvec)]
        /\ UNCHANGED store

\* Lines 164-165: qdrant.search raises (vector index unreachable) and the
\* exception leaves answer_query.
AnswerSearchFails(q, qvec) ==
    /\ ~Get(store, hashseed, q, qvec, app.tenant, app.role).hit
    /\ reply' = [NoReply EXCEPT !.outcome = "failed", !.q = q, !.qvec = qvec,
                                !.calls = CallsToGet \cup {"search"},
                                !.repeat = Repeats(q, qvec)]
    /\ UNCHANGED store

\* Lines 160-218: the miss path, res being what retrieve returned from
\* the dense hits.  generated is FALSE when the chain raises
\* (line 203); unsafe_out is the output guard's verdict (line 207).  The
\* entry is written with ttl None, so with the cache's own ttl.
AnswerMiss(q, qvec, dense, res, prs, generated, unsafe_out) ==
    LET ids == CerbosAllowedIds(cerbos, ResourceIds(res), prs, strict)
        allowed == AllowedDocs(res, ids)
        ans == IF app.profile = "guardrails"
               THEN EnforceOutputGuard(Generated, unsafe_out) ELSE Generated
        called == CallsToGet \cup {"search"}
                    \cup (IF Range(ResourceIds(res)) \subseteq Range(dense)
                          THEN {} ELSE {"scroll"})
                    \cup {"cerbos_info"}
                    \cup (IF res # <<>> /\ (cerbos.is_allowed \/ cerbos.check_resource)
                          THEN {"cerbos_check"} ELSE {})
                    \cup {"generate"}
        base == [NoReply EXCEPT !.q = q, !.qvec = qvec, !.results = res,
                                !.allowed_ids = ids, !.context = allowed,
                                !.repeat = Repeats(q, qvec)]
    IN  /\ ~Get(store, hashseed, q, qvec, app.tenant, app.role).hit
        /\ IF ~generated
           THEN /\ reply' = [base EXCEPT !.outcome = "failed", !.calls = called]
                /\ UNCHANGED store
           ELSE /\ reply' = [base EXCEPT
                       !.outcome = "answered",
                       !.calls = called
                           \cup (IF app.profile = "guardrails" THEN {"guard_out"} ELSE {})
                           \cup {"cache_set"},
                       !.answer = ans,
                       !.sources = PyList(SourcesOf(allowed)),
                       !.unsafe_out = (app.profile = "guardrails" /\ unsafe_out)]
                /\ LET cache_key == Key(hashseed, q, app.tenant, app.role)
                       who == [query |-> q, embedding |-> qvec,
                               tenant |-> app.tenant, role |-> app.role]
                   IN  store' = Expire(HSet(store, cache_key,
                                            Mapping(q, qvec, [answer |-> ans,
                                                              sources |-> SourcesOf(allowed)]),
                                            who),
                                       cache_key, APP_TTL)

\* answer_query(user_q), lines 140-218, with user_q as normalized by lines
\* 146-151.
AnswerQuery ==
    /\ reply = NoReply
    /\ \E q \in Queries :
        \/ AnswerBlocked(q)
        \/ \E qvec \in AppVectors :
            \/ AnswerHit(q, qvec)
            \/ AnswerSearchFails(q, qvec)
            \/ \E dense \in DenseSearches(APP_TOP_K, BuildPrefilter(app.tenant, app.role)),
                  sparse \in Bm25Searches(bm25_ids, APP_TOP_K),
                  generated \in BOOLEAN, unsafe_out \in BOOLEAN :
               LET res == Retrieve(dense, sparse, APP_TOP_K)
               IN  \E prs \in [1..Len(res) -> AppProbes] :
                      AnswerMiss(q, qvec, dense, res, prs, generated, unsafe_out)
    /\ UNCHANGED <<app, before, hashseed, callers, last>>
    /\ UNCHANGED <<cerbos, strict, bm25_ids>>
    /\ UNCHANGED <<resource_objs, probes, allowed_ids, errors, acc_pc>>
    /\ UNCHANGED <<top_k, prefilter, dense_results, sparse_results, results, rt_pc>>
    /\ UNCHANGED <<workers, fuseVars>>

\* cli (lines 222-234): the result or the failure is printed and the next
\* question is awaited.
CliPrints ==
    /\ reply # NoReply
    /\ before' = [q |-> reply.q, qvec |-> reply.qvec,
                returned |-> reply.outcome \in {"hit", "answered"},
                quiet |-> TRUE]
    /\ reply' = NoReply
    /\ UNCHANGED <<app, cacheVars>>
    /\ UNCHANGED <<accVars, rtVars, workers, fuseVars>>

\* Redis drops a key whose ttl has run out, between two questions.
EntryExpires ==
    /\ reply = NoReply
    /\ \E k \in DOMAIN store :
        /\ store[k].ttl > 0
        /\ store' = Del(store, {k})
    /\ before' = [before EXCEPT !.quiet = FALSE]
    /\ UNCHANGED <<app, reply, hashseed, callers, last>>
    /\ UNCHANGED <<accVars, rtVars, workers, fuseVars>>

\* Another process, started with another configuration on the same Redis
\* and with the same hash seed (PYTHONHASHSEED), takes the next question.
OtherProcess ==
    /\ reply = NoReply
    /\ \E c \in callers :
        /\ c # [tenant |-> app.tenant, role |-> app.role]
        /\ app' = [app EXCEPT !.tenant = c.tenant, !.role = c.role]
    /\ before' = NoBefore
    /\ UNCHANGED <<reply, cacheVars>>
    /\ UNCHANGED <<accVars, rtVars, workers, fuseVars>>

\* the process as started: lines 25-27 and 51-65
AppTenants == {<<"a">>}
AppRoles == {Employee, Manager}
AppProfiles == {"base", "guardrails"}

\* Any deployment, before its first question.
AnswerInit ==
    /\ app \in [tenant : AppTenants, role : AppRoles, profile : AppProfiles]
    /\ reply = NoReply
    /\ before = NoBefore
    /\ cerbos \in Clients
    /\ strict \in BOOLEAN
    /\ bm25_ids \in AppBm25Corpora
    /\ store = <<>>
    /\ hashseed \in Seeds
    /\ callers = {[tenant |-> app.tenant, role |-> app.role]}
    /\ last = NoCall

\* An employee's deployment without lexical corpus (bm25_corpus.json
\* absent, lines 62-63), before its first question.
RepeatInit ==
    /\ app \in [tenant : AppTenants, role : {Employee}, profile : AppProfiles]
    /\ reply = NoReply
    /\ before = NoBefore
    /\ cerbos = [is_allowed |-> TRUE, check_resource |-> TRUE]
    /\ strict \in BOOLEAN
    /\ bm25_ids = <<>>
    /\ store = <<>>
    /\ hashseed \in Seeds
    /\ callers = {[tenant |-> app.tenant, role |-> app.role]}
    /\ last = NoCall

\* the configurations of the processes that share one Redis: APP_ROLE
\* 'employee' and ' employee' (line 26 lowercases and does not trim)
ShareConfigs ==
    {[tenant |-> <<"a">>, role |-> Lower(<<"e">>)],
     [tenant |-> <<"a">>, role |-> Lower(<<" ", "e">>)]}

\* Deployments of these configurations without lexical corpus, before the
\* first question.
ShareInit ==
    /\ app \in [tenant : {c.tenant : c \in ShareConfigs},
                 role : {c.role : c \in ShareConfigs}, profile : {"base"}]
    /\ reply = NoReply
    /\ before = NoBefore
    /\ cerbos = [is_allowed |-> TRUE, check_resource |-> TRUE]
    /\ strict = FALSE
    /\ bm25_ids = <<>>
    /\ store = <<>>
    /\ hashseed \in Seeds
    /\ callers = ShareConfigs
    /\ last = NoCall

\* what AnswerInit and RepeatInit leave idle
AppRest ==
    /\ resource_objs = <<>>
    /\ probes = <<>>
    /\ allowed_ids = {}
    /\ errors = <<>>
    /\ acc_pc = "idle"
    /\ top_k = 0
    /\ prefilter = NoFilter
    /\ dense_results = <<>>
    /\ sparse_results = <<>>
    /\ results = <<>>
    /\ rt_pc = "idle"

(***************************************************************************)
(* Specifications.                                                         *)
(***************************************************************************)
InitAccess == AccInit /\ RtIdle /\ CacheIdle /\ WorkersIdle /\ AppIdle /\ FuseIdle
NextAccess == ResolveAllowed
SpecAccess == InitAccess /\ [][NextAccess]_vars

InitRetrieve == RtInit /\ AccIdle /\ CacheIdle /\ WorkersIdle /\ AppIdle /\ FuseIdle
NextRetrieve == RetrieveCall
SpecRetrieve == InitRetrieve /\ [][NextRetrieve]_vars

InitCache == CacheInit /\ AccIdle /\ RtIdle /\ WorkersIdle /\ AppIdle /\ FuseIdle
NextCache == CacheGet \/ CacheSet \/ CacheClear \/ CallReturns \/ KeyExpires
SpecCache == InitCache /\ [][NextCache]_vars

InitKeys == KeysInit /\ AccIdle /\ RtIdle /\ WorkersIdle /\ AppIdle /\ FuseIdle
NextKeys == CacheGet \/ CacheSet \/ CacheClear \/ CallReturns \/ KeyExpires
SpecKeys == InitKeys /\ [][NextKeys]_vars

InitCorrupt == CorruptInit /\ AccIdle /\ RtIdle /\ WorkersIdle /\ AppIdle /\ FuseIdle
NextCorrupt ==
    CacheGet \/ CacheSet \/ CacheClear \/ CallReturns \/ KeyExpires \/ ForeignWrite
SpecCorrupt == InitCorrupt /\ [][NextCorrupt]_vars

InitConc == CacheInit /\ AccIdle /\ RtIdle /\ WorkersIdle /\ AppIdle /\ FuseIdle
NextConc == \E w \in Workers : SetEnter(w) \/ SetHSet(w) \/ SetExpire(w)
SpecConc == InitConc /\ [][NextConc]_vars

InitFuse == FuseInit /\ AccIdle /\ RtIdle /\ CacheIdle /\ WorkersIdle /\ AppIdle
NextFuse == RrfFuseCall
SpecFuse == InitFuse /\ [][NextFuse]_vars

InitAnswer == AnswerInit /\ AppRest /\ WorkersIdle /\ FuseIdle
NextAnswer == AnswerQuery
SpecAnswer == InitAnswer /\ [][NextAnswer]_vars

InitRepeat == RepeatInit /\ AppRest /\ WorkersIdle /\ FuseIdle
NextRepeat == AnswerQuery \/ CliPrints \/ EntryExpires
SpecRepeat == InitRepeat /\ [][NextRepeat]_vars

InitShare == ShareInit /\ AppRest /\ WorkersIdle /\ FuseIdle
NextShare == AnswerQuery \/ CliPrints \/ EntryExpires \/ OtherProcess
SpecShare == InitShare /\ [][NextShare]_vars

(***************************************************************************)
(* Claims about the access reconciler.                                     *)
(***************************************************************************)
\* What each strategy said for one resource, as the caller of the client
\* sees it: "missing" (no such method), "raise", "allow", "deny" (returned
\* normally with a negative result), "none" (returned normally with a
\* decision that says nothing).
IaVerdict(c, p) ==
    IF ~c.is_allowed THEN "missing"
    ELSE IF p.ia = "raise" THEN "raise"
    ELSE IF p.ia = "true" THEN "allow" ELSE "deny"

CrVerdict(c, p) ==
    IF ~c.check_resource THEN "missing"
    ELSE IF p.cr.raises \/ p.cr.m = "raise" THEN "raise"
    ELSE IF p.cr.m = "true" \/ p.cr.a = "true" THEN "allow"
    ELSE IF p.cr.m = "false" \/ p.cr.a = "false" THEN "deny"
    ELSE "none"

\* Every check the client has returned normally with a negative result.
ExplicitDeny(c, p) ==
    /\ IaVerdict(c, p) \in {"missing", "deny"}
    /\ CrVerdict(c, p) \in {"missing", "deny"}
    /\ "deny" \in {IaVerdict(c, p), CrVerdict(c, p)}

\* Every check strategy raises or is missing.
NoVerdict(c, p) ==
    /\ IaVerdict(c, p) \in {"missing", "raise"}
    /\ CrVerdict(c, p) \in {"missing", "raise"}

AllDenied ==
    /\ acc_pc = "done"
    /\ resource_objs # <<>>
    /\ \A i \in 1..Len(probes) : ExplicitDeny(cerbos, probes[i])

NoneDecided ==
    /\ acc_pc = "done"
    /\ \A i \in 1..Len(probes) : NoVerdict(cerbos, probes[i])

\* C1: when every candidate of a non-empty list is explicitly denied (every
\* check returns normally with a negative result), the returned allow-set is
\* empty, in permissive and in strict mode.
C1_AllDenyIsEmpty == AllDenied => allowed_ids = {}

\* C2: when no candidate yields any explicit verdict (every strategy raises
\* or is missing), permissive mode returns exactly the ids of all the input
\* candidates and strict mode returns the empty set.
C2_NoVerdictFallback ==
    NoneDecided =>
        allowed_ids = (IF strict THEN {} ELSE Range(resource_objs))

\* C2's case: a permissive call on a non-empty list in which a strategy
\* raised for every candidate, answered with all the candidates.
C2_Witness ==
    /\ NoneDecided
    /\ ~strict
    /\ Len(resource_objs) = MaxCands
    /\ Len(errors) >= MaxCands
    /\ allowed_ids = Range(resource_objs)

\* C15: a candidate that the simple boolean check explicitly denies
\* (is_allowed returns false without raising) is not in the allow-set,
\* whatever the decision-object check returns; stated for strict mode,
\* where no fallback widens the allow-set.
C15_FirstDenyIsFinal ==
    (acc_pc = "done" /\ strict) =>
        \A i \in 1..Len(probes) :
            IaVerdict(cerbos, probes[i]) = "deny" => resource_objs[i] \notin allowed_ids

\* the strategy runs of the call that raised: <<i, "is_allowed">>, and
\* <<i, "check_resource">> where is_allowed did not allow
Raised ==
    {<<i, "is_allowed">> : i \in {j \in 1..Len(probes) :
                                    IaVerdict(cerbos, probes[j]) = "raise"}}
    \cup {<<i, "check_resource">> : i \in {j \in 1..Len(probes) :
                                    /\ IaVerdict(cerbos, probes[j]) # "allow"
                                    /\ CrVerdict(cerbos, probes[j]) = "raise"}}

\* C16: a strategy that raises or is missing never ends the call: the call
\* returns, every candidate that any strategy allows is in the allow-set
\* whichever strategies raised before for it or for earlier candidates, and
\* every raising strategy of every candidate has been recorded.
C16_FailuresFallThrough ==
    acc_pc = "done" =>
        /\ \A i \in 1..Len(probes) :
              "allow" \in {IaVerdict(cerbos, probes[i]), CrVerdict(cerbos, probes[i])}
                  => resource_objs[i] \in allowed_ids
        /\ Len(errors) = Cardinality(Raised)
        /\ allowed_ids \subseteq Range(resource_objs)

\* C16's case: both strategies raise for the first candidate, the simple
\* check raises for the second and the decision-object check allows it.
C16_Witness ==
    /\ acc_pc = "done"
    /\ Len(probes) = 2
    /\ IaVerdict(cerbos, probes[1]) = "raise"
    /\ CrVerdict(cerbos, probes[1]) = "raise"
    /\ IaVerdict(cerbos, probes[2]) = "raise"
    /\ CrVerdict(cerbos, probes[2]) = "allow"
    /\ allowed_ids = {resource_objs[2]}
    /\ Len(errors) = 3

(***************************************************************************)
(* Claims about the hybrid retriever.                                      *)
(***************************************************************************)
\* C5: with a prefilter, every candidate retrieve returns satisfies it, the
\* candidates that only the lexical search found included.
C5_ResultsSatisfyPrefilter ==
    (rt_pc = "done" /\ prefilter # NoFilter) =>
        \A i \in 1..Len(results) : Matches(results[i], prefilter)

\* C6: retrieve returns at most top_k candidates.
C6_AtMostTopK == rt_pc = "done" => Len(results) <= top_k

\* C6's case: both searches returned more ids than top_k and the result was
\* cut to top_k.
C6_Witness ==
    /\ rt_pc = "done"
    /\ top_k > 0
    /\ Len(dense_results) > top_k
    /\ Len(sparse_results) > top_k
    /\ Len(results) = top_k

\* the vector index holds a point with this id, or one with this source
\* key: a lookup by id, or else by source, would find a payload
Resolvable(did) ==
    \/ did \in PointIds
    \/ \E id \in PointIds : Points[id].source = did

\* C21: a candidate that only the lexical search found is kept in the
\* result, and it has an empty text only when the vector index has no point
\* of that id and none of that source key; otherwise its payload has been
\* resolved.
C21_LexicalOnlyPayloadResolved ==
    rt_pc = "done" =>
        /\ \A did \in Range(FusedIds(dense_results, sparse_results)) :
              \E i \in 1..Len(FusedIds(dense_results, sparse_results)) :
                  /\ FusedIds(dense_results, sparse_results)[i] = did
                  /\ i <= top_k => results[i].id = did
        /\ \A i \in 1..Len(results) :
              (results[i].id \notin Range(dense_results) /\ results[i].text = "")
                  => ~Resolvable(results[i].id)

(***************************************************************************)
(* Claims about rank fusion.                                               *)
(***************************************************************************)
\* the fused score of an id in the call at hand
Score(id) == RrfScore(fuse_dense, fuse_sparse, id, RRF_K)

\* id is ranked 1 in exactly one of the two lists and absent from the other
FirstInOneOnly(dense, sparse, id) ==
    \/ RankIn(dense, id) = 1 /\ RankIn(sparse, id) = 0
    \/ RankIn(sparse, id) = 1 /\ RankIn(dense, id) = 0

\* the call at hand has a document ranked 1 in both lists
FirstInBoth ==
    /\ fuse_pc = "done"
    /\ fuse_dense # <<>>
    /\ fuse_sparse # <<>>
    /\ fuse_dense[1] = fuse_sparse[1]

TieOrder(x, y) ==
    IF x \in Range(fuse_dense) /\ y \in Range(fuse_dense)
    THEN RankIn(fuse_dense, x) < RankIn(fuse_dense, y)
    ELSE IF x \in Range(fuse_dense) THEN TRUE
    ELSE IF y \in Range(fuse_dense) THEN FALSE
    ELSE RankIn(fuse_sparse, x) < RankIn(fuse_sparse, y)

\* C20: the fused list holds every id of the two lists once, in descending
\* order of fused score, ids of equal score by dense rank (a dense-ranked
\* id before a sparse-only one) and otherwise by insertion order.
C20_SortedWithStableTies ==
    fuse_pc = "done" =>
        /\ Range(fuse_out) = Range(fuse_dense) \cup Range(fuse_sparse)
        /\ Len(fuse_out) = Cardinality(Range(fuse_out))
        /\ \A i, j \in 1..Len(fuse_out) : i < j =>
              /\ ~FracGT(Score(fuse_out[j]), Score(fuse_out[i]))
              /\ FracEQ(Score(fuse_out[i]), Score(fuse_out[j])) => TieOrder(fuse_out[i], fuse_out[j])

\* C20's case: a tie between an id only the dense list holds and one only
\* the sparse list holds, at the same rank, in a list that also has ids of
\* different scores.
C20_Witness ==
    /\ fuse_pc = "done"
    /\ \E i, j \in 1..Len(fuse_out) :
          /\ i < j
          /\ FracEQ(Score(fuse_out[i]), Score(fuse_out[j]))
          /\ fuse_out[i] \notin Range(fuse_sparse)
          /\ fuse_out[j] \notin Range(fuse_dense)
    /\ \E i, j \in 1..Len(fuse_out) : FracGT(Score(fuse_out[i]), Score(fuse_out[j]))

(***************************************************************************)
(* Claims about the semantic cache.                                        *)
(***************************************************************************)
\* the key the latest call addressed
LastKey == Key(hashseed, last.query, last.tenant, last.role)

\* tenant or role as the key holds it
Normal(str) == Strip(Lower(str))

\* The latest call is a get that found, at its key, the entry a set wrote
\* with the identical query text, embedding and role.
GetMetTwin ==
    /\ last.op = "get"
    /\ LastKey \in DOMAIN store
    /\ store[LastKey].by.query = last.query
    /\ store[LastKey].by.embedding = last.embedding
    /\ store[LastKey].by.role = last.role

\* C3 as stated: a get under tenant B never hits the entry that a set with
\* the identical text, embedding and role wrote under any other tenant A.
C3_OtherTenantMisses ==
    (GetMetTwin /\ store[LastKey].by.tenant # last.tenant) => ~last.ret.hit

\* C3 amended: a get under tenant B hits only an entry that was set under a
\* tenant equal to B after trimming and lowercasing; the entry that a set
\* with the identical text, embedding and role wrote under a tenant A that
\* differs from B after trimming and lowercasing is never returned.
C3_OtherNormalTenantMisses ==
    (last.op = "get" /\ last.ret.hit) =>
        /\ LastKey \in DOMAIN store
        /\ store[LastKey].by.role = last.role
            => Normal(store[LastKey].by.tenant) = Normal(last.tenant)

\* C3's case: right after set(q, e, tenant A) a get(q, e, tenant B) of the
\* same role, B another tenant, with an embedding that would have matched:
\* a miss.
C3_Witness ==
    /\ last.op = "get"
    /\ last.prev = Args("set", last.query, last.embedding, <<"a">>, last.role)
    /\ last.tenant = <<"b">>
    /\ last.embedding = <<1, 0>>
    /\ Key(hashseed, last.query, <<"a">>, last.role) \in DOMAIN store
    /\ ~last.ret.hit

\* the latest call is a get right after a set with the same arguments
GetAfterSameSet ==
    /\ last.op = "get"
    /\ last.prev = Args("set", last.query, last.embedding, last.tenant, last.role)

\* a similarity of 1.0: dot / sqrt(nn) = 1
IsOne(sim) == sim.dot > 0 /\ sim.dot * sim.dot = sim.nn

\* the squared norm of a vector, component by component
RECURSIVE NormSq(_)
NormSq(v) == IF v = <<>> THEN 0 ELSE Head(v) * Head(v) + NormSq(Tail(v))

\* C8 as stated: for every embedding, a get right after a set with the same
\* tenant, role, query and embedding is a hit of similarity 1.0.
C8_SetThenGetHits ==
    GetAfterSameSet => (last.ret.hit /\ IsOne(last.ret.similarity))

\* C8 amended: for every embedding of non-zero norm, a get right after a set
\* with the same tenant, role, query and embedding is a hit of similarity
\* 1.0.
C8_SetThenGetHitsNonZero ==
    (GetAfterSameSet /\ NormSq(last.embedding) # 0)
        => (last.ret.hit /\ IsOne(last.ret.similarity))

\* C8's case: such a get, after a set that overwrote nothing or something,
\* with a non-zero embedding, answered with the stored answer.
C8_Witness ==
    /\ GetAfterSameSet
    /\ last.embedding = <<4, 1>>
    /\ last.ret.hit
    /\ last.ret.answer = "ans"

\* cosine(a, b) >= 0.95, with a zero vector counting as similarity 0:
\* 0.95^2 = 361/400.
AtLeastThreshold(a, b) ==
    LET d == a[1] * b[1] + a[2] * b[2]
    IN  /\ NormSq(a) > 0
        /\ NormSq(b) > 0
        /\ d > 0
        /\ 400 * d * d >= 361 * NormSq(a) * NormSq(b)

\* C9: a get whose key holds an entry is a hit exactly when the similarity
\* of the stored and the incoming embedding is at least the threshold; below
\* it (zero-norm vectors counting as 0) the get is a miss.
C9_HitIffAtLeastThreshold ==
    (last.op = "get" /\ LastKey \in DOMAIN store) =>
        (last.ret.hit <=> AtLeastThreshold(last.embedding, store[LastKey].by.embedding))

\* C9's case: a get whose key holds an entry with another, non-zero
\* embedding too far from the incoming one: a miss.
C9_Witness ==
    /\ last.op = "get"
    /\ LastKey \in DOMAIN store
    /\ last.embedding = <<1, 0>>
    /\ store[LastKey].by.embedding = <<1, 1>>
    /\ ~last.ret.hit

\* the keys of the entries that were set under the tenant and the role a
\* clear names (<<>>: not given)
InScope(st, tenant, role) ==
    {k \in DOMAIN st :
        /\ tenant = <<>> \/ st[k].by.tenant = tenant
        /\ role = <<>> \/ st[k].by.role = role}

\* C11: clear(tenant, role), given tenant and role in the form passed to
\* set, deletes exactly the entries set under that tenant and role (all of
\* them when neither is given), leaves the others as they are, and returns
\* the number of entries deleted.
C11_ClearDeletesExactlyScope ==
    [][last'.op = "clear" =>
        LET scope == InScope(store, last'.tenant, last'.role)
        IN  /\ DOMAIN store' = DOMAIN store \ scope
            /\ \A k \in DOMAIN store' : store'[k] = store[k]
            /\ last'.count = Cardinality(scope)]_vars

\* two (tenant, role) pairs that are the same after trimming and lowercasing
SameNormalPair(c1, c2) ==
    /\ Normal(c1.tenant) = Normal(c2.tenant)
    /\ Normal(c1.role) = Normal(c2.role)

\* C13: two (tenant, role) pairs that differ after trimming and lowercasing
\* never share a key, so that a get under one pair never returns an entry
\* that was set under the other: the entry a get returns was set under the
\* get's own pair.
C13_HitOnlyUnderOwnPair ==
    (last.op = "get" /\ last.ret.hit) =>
        /\ SameNormalPair(store[LastKey].by, [tenant |-> last.tenant, role |-> last.role])
        /\ \A c \in callers :
              Key(hashseed, last.query, c.tenant, c.role) = LastKey
                  => SameNormalPair(c, [tenant |-> last.tenant, role |-> last.role])

\* the embedding stored in a hash cannot be read as a vector comparable
\* with the embedding e: the field is missing, its bytes do not decode, or
\* they decode to another dimension
Unreadable(fields, e) ==
    \/ "embedding" \notin DOMAIN fields
    \/ FromBuffer(fields.embedding).raises
    \/ Len(FromBuffer(fields.embedding).v) # Len(e)

\* C22: a get whose key holds an entry with an unreadable embedding returns
\* a miss without raising (the entry is still in the store afterwards).
C22_UnreadableEmbeddingIsMiss ==
    (/\ last.op = "get"
     /\ LastKey \in DOMAIN store
     /\ Unreadable(store[LastKey].fields, last.embedding))
        => (~last.ret.hit /\ ~last.ret.raises)

(***************************************************************************)
(* Claims about concurrent set calls.                                      *)
(***************************************************************************)
\* both workers have finished a set on the same key
BothSetSameKey ==
    /\ \A w \in Workers : workers[w].pc = "done"
    /\ WorkerKey("w1") = WorkerKey("w2")

\* C10: after two set calls on the same key by different workers, in every
\* interleaving of their HSET and EXPIRE commands, the entry's fields are
\* those of the worker whose HSET came last and the key's ttl is the one
\* that worker asked for.
C10_LastWriterWinsFieldsAndTtl ==
    BothSetSameKey =>
        LET k == WorkerKey("w1")
            w == store[k].by
        IN  /\ store[k].fields =
                 Mapping(workers[w].query, workers[w].embedding,
                         [answer |-> w, sources |-> <<>>])
            /\ store[k].ttl = EffectiveTtl(workers[w].ttl)
(***************************************************************************)
(* Claims about answer_query.                                              *)
(***************************************************************************)
\* a candidate that is a confidential point of the corpus, whether it came
\* with its payload or as a stub
Confidential(doc) ==
    \/ doc.sensitivity = "confidential"
    \/ doc.id \in PointIds /\ Points[doc.id].sensitivity = "confidential"

\* C4: with role employee, whatever the searches and the authorization
\* return, the context assembled for generation holds no candidate whose
\* sensitivity label is confidential.
C4_EmployeeContextNotConfidential ==
    app.role = Employee =>
        \A i \in 1..Len(reply.context) : ~Confidential(reply.context[i])

\* the call reached the context assembly of lines 188-194
ContextAssembled == "generate" \in reply.calls

\* the position of a candidate of the context in the retrieved list
PosInResults(doc) == CHOOSE i \in 1..Len(reply.results) : reply.results[i].id = doc.id

\* C14: the allow-set is a subset of the retrieved ids; the context holds
\* exactly the retrieved candidates whose id is in the allow-set, each
\* once, in retrieval order, and so nothing retrieval did not return.
C14_ContextIsRetrievedAndAllowed ==
    ContextAssembled =>
        /\ reply.allowed_ids \subseteq Range(ResourceIds(reply.results))
        /\ \A i \in 1..Len(reply.context) :
              /\ reply.context[i] \in Range(reply.results)
              /\ reply.context[i].id \in reply.allowed_ids
        /\ \A i \in 1..Len(reply.results) :
              reply.results[i].id \in reply.allowed_ids
                  => reply.results[i] \in Range(reply.context)
        /\ \A i, j \in 1..Len(reply.context) :
              i < j => PosInResults(reply.context[i]) < PosInResults(reply.context[j])

\* C14's case: two candidates retrieved, the first one denied and the
\* second one allowed, and the context holds the second only.
C14_Witness ==
    /\ ContextAssembled
    /\ Len(reply.results) = 2
    /\ reply.allowed_ids = {reply.results[2].id}
    /\ reply.context = <<reply.results[2]>>

\* C17: a call whose input is classified unsafe fails as blocked after the
\* input classification alone: no embedding, cache lookup, retrieval,
\* authorization or generation call has been made, the classification has
\* not been repeated, and nothing is returned or cached.
C17_BlockedBeforeAnything ==
    reply.outcome = "blocked" =>
        /\ app.profile = "guardrails"
        /\ reply.calls = {"guard_in"}
        /\ reply.answer = ""
        /\ store = <<>>

\* C17's case: a blocked call of a deployment with the guardrails profile.
C17_Witness ==
    /\ app.profile = "guardrails"
    /\ reply.outcome = "blocked"
    /\ reply.calls = {"guard_in"}

\* the key of the call's question
ReplyKey == Key(hashseed, reply.q, app.tenant, app.role)

\* C18: a call whose generated answer is classified unsafe does not fail:
\* it returns the fixed refusal string, and the answer it stores in the
\* cache is that string, not the generated text.
C18_UnsafeOutputIsRefused ==
    reply.unsafe_out =>
        /\ reply.outcome = "answered"
        /\ reply.answer = Refusal
        /\ reply.answer # Generated
        /\ ReplyKey \in DOMAIN store
        /\ store[ReplyKey].fields.answer = Refusal

\* C18's case: such a call, with a context that is not empty.
C18_Witness ==
    /\ reply.unsafe_out
    /\ reply.context # <<>>
    /\ reply.answer = Refusal
    /\ store[ReplyKey].fields.answer = Refusal

\* C19: a call that is blocked on input, that fails in retrieval or in
\* generation, or that hits the cache leaves the cache store as it is, the
\* ttl of the entry it hit included; only a call that missed and generated
\* its answer writes, and it writes the entry of its own key only.
C19_OnlyAnsweredMissWrites ==
    [][(reply = NoReply /\ reply' # NoReply) =>
        IF reply'.outcome = "answered"
        THEN /\ "cache_set" \in reply'.calls
             /\ \A k \in DOMAIN store \cup DOMAIN store' :
                   k # Key(hashseed, reply'.q, app.tenant, app.role)
                       => k \in DOMAIN store /\ k \in DOMAIN store' /\ store'[k] = store[k]
        ELSE /\ "cache_set" \notin reply'.calls
             /\ store' = store]_vars

\* C19's case: a call has hit an entry that another question wrote, and
\* the entry is still that question's.
C19_Witness ==
    /\ reply.outcome = "hit"
    /\ ReplyKey \in DOMAIN store
    /\ store[ReplyKey].by.query # reply.q
    /\ store[ReplyKey].ttl = APP_TTL

\* the collaborators a cache hit must not call
RetrievalAndGeneration == {"search", "scroll", "cerbos_check", "generate"}

\* the call is a cache hit that performed no vector-index search, no
\* authorization check and no generation call
HitWithoutCollaborators ==
    /\ reply.outcome = "hit"
    /\ reply.calls \cap RetrievalAndGeneration = {}

\* C7 as stated: a call that follows a call that returned an answer, with
\* the identical question and the same embedding, nothing having expired in
\* between, is a cache hit and performs no search, no authorization check
\* and no generation.
C7_SecondCallIsHit ==
    reply.repeat => HitWithoutCollaborators

\* C7 amended: such a call whose embedding has a non-zero norm is a cache
\* hit and performs no search, no authorization check and no generation.
C7_SecondCallNonZeroIsHit ==
    (reply.repeat /\ NormSq(reply.qvec) # 0) => HitWithoutCollaborators

\* C7's case: the second of two such calls has been answered from the
\* entry the first one left, after the embedding and the cache lookup only.
C7_Witness ==
    /\ reply.repeat
    /\ NormSq(reply.qvec) # 0
    /\ reply.outcome = "hit"
    /\ Key(hashseed, reply.q, app.tenant, app.role) \in DOMAIN store
    /\ store[Key(hashseed, reply.q, app.tenant, app.role)].by.embedding = reply.qvec
    /\ reply.calls = {"embed", "cache_get"}
\* C23: a call that hits the cache returns the answer and the sources that
\* the miss-path call stored at the key, the sources as the list that call
\* returned.
C23_HitReturnsStoredAnswerAndSources ==
    reply.outcome = "hit" =>
        /\ reply.answer = store[ReplyKey].fields.answer
        /\ reply.sources = PyList(store[ReplyKey].fields.sources.str_of)

\* C24: a call that hits the cache is served an entry that was cached
\* under a configuration with the same prefilter: configurations that share
\* a key have the same tenant match and the same sensitivity restriction.
C24_HitSharesPrefilter ==
    reply.outcome = "hit" =>
        BuildPrefilter(app.tenant, app.role)
            = BuildPrefilter(store[ReplyKey].by.tenant, store[ReplyKey].by.role)
=============================================================================
